---- MODULE Spec2Model ----
(***************************************************************************)
(* Model of the BFL image edge service (src/src/index.ts), and of the      *)
(* earlier /api/getImage handler kept in src/unnamed/part_000.             *)
(*                                                                         *)
(* One request is handled per behaviour: the handlers keep no state across *)
(* requests.  A handler is cut at its awaits on the outside world (the     *)
(* submission fetch, each status fetch, the inter-poll sleep); everything  *)
(* the code does between two such awaits is one action.  The upstream's    *)
(* answers are inputs, drawn with \E from small sets.                      *)
(***************************************************************************)
EXTENDS Integers, Sequences, FiniteSets, TLC

VARIABLES
    env,         \* c.env.BFL_API_KEY
    route,       \* the endpoint serving the request, "none" before it arrives
    pc,          \* the handler's position: the await it is suspended on
    req,         \* the parsed request (form fields or JSON body)
    bflRequest,  \* the JSON body submitted upstream
    bflResponse, \* what the submission call returned
    imageUrl,    \* the status URL being polled
    attempts,    \* /api/generate: let attempts
    counter,     \* /api/getImage: let counter
    data,        \* the last status payload parsed
    status,      \* /api/getImage: let status
    log,         \* outbound calls and sleeps, in order
    polled,      \* what each status fetch of the poll loop returned, in order
    response     \* what the handler returned

vars == <<env, route, pc, req, bflRequest, bflResponse, imageUrl, attempts, counter, data,
          status, log, polled, response>>

-----------------------------------------------------------------------------
(* JavaScript values *)

Absent == "<undefined>"

Truthy(s) == s \notin {Absent, ""}

Undefined == [t |-> "undefined", v |-> ""]
Str(s) == [t |-> "str", v |-> s]
FileOf(name) == [t |-> "file", v |-> name]

\* !x for a form field: undefined and the empty string are falsy
FieldTruthy(f) == f.t = "file" \/ (f.t = "str" /\ f.v # "")

IsFile(f) == f.t = "file"

-----------------------------------------------------------------------------
(* Program constants *)

maxAttempts == 45
delayMs == 2000
counterBreak == 120
defaultSize == 1024
createSize == 512
earlyCounterBreak == 10

BflUrl == "https://api.bfl.ai/v1/flux-2-pro"

DefaultPrompt == "[photo reference 1] people with minimal cybernetic enhancements: Illuminated seam detailing on jacket collar reacting to ambient light, Subtle holographic data stream projection floating around the person. Background from [photo reference 2] (text removed) with cyberpunk color grading, Photorealistic, sci-fi. take inspiration from [photo reference 3]"

-----------------------------------------------------------------------------
(* parseInt(width) || 1024 *)

Digits == {"0", "1", "2", "3", "4", "5", "6", "7", "8", "9"}

DigitVal(c) ==
    CASE c = "0" -> 0 [] c = "1" -> 1 [] c = "2" -> 2 [] c = "3" -> 3
      [] c = "4" -> 4 [] c = "5" -> 5 [] c = "6" -> 6 [] c = "7" -> 7
      [] c = "8" -> 8 [] c = "9" -> 9

RECURSIVE SkipSpace(_, _)
SkipSpace(s, i) ==
    IF i <= Len(s) /\ s[i] = " " THEN SkipSpace(s, i + 1) ELSE i

RECURSIVE ParseDigits(_, _, _)
ParseDigits(s, i, acc) ==
    IF i > Len(s) \/ s[i] \notin Digits
    THEN acc
    ELSE ParseDigits(s, i + 1, acc * 10 + DigitVal(s[i]))

NaN == [nan |-> TRUE, n |-> 0]

\* parseInt of a form field: leading blanks, an optional sign, then the
\* longest run of digits; NaN when there is none (or the field is undefined)
ParseInt(f) ==
    IF f.t # "str" THEN NaN
    ELSE LET s == f.v
             i == SkipSpace(s, 1)
             signed == i <= Len(s) /\ s[i] \in {"-", "+"}
             j == IF signed THEN i + 1 ELSE i
         IN IF j > Len(s) \/ s[j] \notin Digits
            THEN NaN
            ELSE [nan |-> FALSE,
                  n |-> IF signed /\ s[i] = "-"
                        THEN 0 - ParseDigits(s, j, 0)
                        ELSE ParseDigits(s, j, 0)]

\* x || 1024 : NaN and 0 are falsy
OrDefault(p) == IF p.nan \/ p.n = 0 THEN defaultSize ELSE p.n

-----------------------------------------------------------------------------
(* Inputs *)

Keys == {Absent, "", "bfl-key"}

Prompts == {Undefined, Str(""), Str("a cat")}

Images == {Undefined, Str("not a file"), FileOf("photo.jpg")}

Widths == {Undefined, Str(<<"a", "b">>), Str(<<"0">>), Str(<<"-", "5">>),
           Str(<<"5", "1", "2">>)}

Heights == {Undefined, Str(<<"7", "6", "8">>)}

\* multipart bodies: well-formed ones parse to their fields, parseBody
\* throws on the malformed one
Forms ==
    [ok : {TRUE}, prompt : Prompts, image : Images, width : Widths, height : Heights]
    \cup {[ok |-> FALSE, prompt |-> Undefined, image |-> Undefined,
           width |-> Undefined, height |-> Undefined]}

\* JSON bodies of /api/getImage: "bad" does not parse, "null" is the JSON
\* null, "object" carries imageUrl (possibly undefined or empty)
JsonBodies ==
    {[kind |-> "bad", imageUrl |-> Absent], [kind |-> "null", imageUrl |-> Absent]}
    \cup [kind : {"object"}, imageUrl : {Absent, "", "https://status/u1"}]

NoReq == [kind |-> "none"]

UrlX == "https://x/img.jpg"
UrlY == "https://y/img.png"

PollingUrls == {"https://poll/1", "https://poll/2"}

\* what the submission call can do
SubmitOutcomes ==
    {[kind |-> "throw", polling_url |-> Absent],
     [kind |-> "notok", polling_url |-> Absent],
     [kind |-> "badjson", polling_url |-> Absent]}
    \cup [kind : {"ok"}, polling_url : PollingUrls \cup {Absent, ""}]

NoData == [kind |-> "undefined", status |-> Absent, hasResult |-> FALSE,
           resultSample |-> Absent, sample |-> Absent]
NullData == [kind |-> "null", status |-> Absent, hasResult |-> FALSE,
             resultSample |-> Absent, sample |-> Absent]

\* status payloads: {status, result: {sample}} or {status, sample}, with
\* either part possibly missing or empty
Payloads ==
    {[kind |-> "object", status |-> s, hasResult |-> h, resultSample |-> r,
      sample |-> t] :
        s \in {"Pending", "Ready", "Error"}, h \in BOOLEAN,
        r \in {Absent, "", UrlX}, t \in {Absent, UrlY}}

WellFormed(p) ==
    /\ ~p.hasResult => p.resultSample = Absent
    /\ p.status = "Pending" => p.resultSample \in {Absent, UrlX}

\* what a status fetch can do: reject, answer non-2xx, answer a body that
\* is not JSON, answer null, or answer a payload
PollOutcomes ==
    {[kind |-> k, payload |-> NoData] : k \in {"throw", "notok", "badjson"}}
    \cup {[kind |-> "ok", payload |-> NullData]}
    \cup {[kind |-> "ok", payload |-> p] : p \in {q \in Payloads : WellFormed(q)}}

-----------------------------------------------------------------------------
(* Responses: c.json(body, status) *)

Json(body, code) == [status |-> code, body |-> body]

NoResponse == [status |-> 0, body |-> [none |-> TRUE]]

ErrorBody(parts) == [error |-> parts]

\* JSON.stringify drops a field whose value is undefined
ImageBody(url) == IF url = Absent THEN [x \in {} |-> Absent] ELSE [image |-> url]

Fetch(op, url) == [op |-> op, url |-> url, ms |-> 0]
Sleep(ms) == [op |-> "sleep", url |-> Absent, ms |-> ms]

-----------------------------------------------------------------------------
Init ==
    /\ env \in [BFL_API_KEY : Keys]
    /\ route = "none"
    /\ pc = "idle"
    /\ req = NoReq
    /\ bflRequest = [none |-> TRUE]
    /\ bflResponse = [kind |-> "none", polling_url |-> Absent]
    /\ imageUrl = Absent
    /\ attempts = 0
    /\ counter = 0
    /\ data = NoData
    /\ status = Absent
    /\ log = <<>>
    /\ polled = <<>>
    /\ response = NoResponse

Respond(r) ==
    /\ response' = r
    /\ pc' = "done"

-----------------------------------------------------------------------------
(* POST /api/create *)

\* faulty variant: only an undefined key is taken as missing (apiKey === undefined)
KeyMissing_Mut(key) == key = Absent

\* if (!apiKey)
KeyMissing(key) == ~Truthy(key)

ApiKeyMissing == Json(ErrorBody(<<"API key missing">>), 500)

ImageRequired == Json(ErrorBody(<<"Image file required">>), 400)

\* catch (error) { return c.json({ error: error.message }, 500) }
CreateCatch(msg) == Json(ErrorBody(<<msg>>), 500)

\* the checks of lines 25-34, in the code's order; "pass" when both pass
CreateValidation(form) ==
    IF ~FieldTruthy(form.prompt)
    THEN Json(ErrorBody(<<"Prompt required">>), 400)
    ELSE IF ~FieldTruthy(form.image) \/ ~IsFile(form.image)
    THEN ImageRequired
    ELSE Json([pass |-> TRUE], 0)

CreateBody(form) ==
    [prompt |-> form.prompt.v, input_image |-> <<"base64", form.image.v>>,
     seed |-> 1, width |-> createSize, height |-> createSize,
     safety_tolerance |-> 0, output_format |-> "jpeg"]

CreateBegin(form) ==
    /\ pc = "idle"
    /\ route' = "create"
    /\ req' = form
    /\ IF KeyMissing(env.BFL_API_KEY)
       THEN Respond(ApiKeyMissing) /\ UNCHANGED <<bflRequest, log>>
       ELSE IF ~form.ok
       THEN Respond(CreateCatch("parseBody failed")) /\ UNCHANGED <<bflRequest, log>>
       ELSE IF CreateValidation(form).status # 0
       THEN Respond(CreateValidation(form)) /\ UNCHANGED <<bflRequest, log>>
       ELSE /\ bflRequest' = CreateBody(form)
            /\ log' = Append(log, Fetch("submit", BflUrl))
            /\ pc' = "createSubmit"
            /\ UNCHANGED response
    /\ UNCHANGED <<env, bflResponse, imageUrl, attempts, counter, data, status, polled>>

UpstreamError == Json(ErrorBody(<<"BFL API error: ", "upstream body">>), 500)

\* faulty variant: the upstream's body is left out of the answer
CreateSuccess_Mut(out) ==
    Json([success |-> TRUE, prompt |-> req.prompt.v, timestamp |-> "now"], 200)

CreateSuccess(out) ==
    Json([success |-> TRUE, result |-> [polling_url |-> out.polling_url],
          prompt |-> req.prompt.v, timestamp |-> "now"], 200)

CreateSubmitReturn(out) ==
    /\ pc = "createSubmit"
    /\ Respond(CASE out.kind = "throw" -> CreateCatch("fetch failed")
                 [] out.kind = "notok" -> UpstreamError
                 [] out.kind = "badjson" -> CreateCatch("Unexpected token")
                 [] out.kind = "ok" -> CreateSuccess(out))
    /\ bflResponse' = out
    /\ UNCHANGED <<env, route, req, bflRequest, imageUrl, attempts, counter,
                   data, status, log, polled>>

-----------------------------------------------------------------------------
(* POST /api/generate *)

\* catch (error) { return c.json({ message: ..., error: error.message }, 500) }
GenerateCatch(msg) ==
    Json([message |-> "failed to generate Image", error |-> <<msg>>], 500)

\* faulty variant: the fallback prompt is never substituted
ImagePrompt_Mut(prompt) == prompt.v

ImagePrompt(prompt) == IF ~FieldTruthy(prompt) THEN DefaultPrompt ELSE prompt.v

\* faulty variant: the instanceof File test is dropped
GenerateValidation_Mut(form) ==
    IF ~FieldTruthy(form.image) THEN ImageRequired ELSE Json([pass |-> TRUE], 0)

GenerateValidation(form) ==
    IF ~FieldTruthy(form.image) \/ ~IsFile(form.image)
    THEN ImageRequired
    ELSE Json([pass |-> TRUE], 0)

GenerateBody(form) ==
    [prompt |-> ImagePrompt(form.prompt),
     input_image |-> <<"base64", form.image.v>>,
     seed |-> 1,
     width |-> OrDefault(ParseInt(form.width)),
     height |-> OrDefault(ParseInt(form.height)),
     safety_tolerance |-> 0, output_format |-> "jpeg"]

GenerateBegin(form) ==
    /\ pc = "idle"
    /\ route' = "generate"
    /\ req' = form
    /\ IF KeyMissing(env.BFL_API_KEY)
       THEN Respond(ApiKeyMissing) /\ UNCHANGED <<bflRequest, log>>
       ELSE IF ~form.ok
       THEN Respond(GenerateCatch("parseBody failed")) /\ UNCHANGED <<bflRequest, log>>
       ELSE IF GenerateValidation(form).status # 0
       THEN Respond(GenerateValidation(form)) /\ UNCHANGED <<bflRequest, log>>
       ELSE /\ bflRequest' = GenerateBody(form)
            /\ log' = Append(log, Fetch("submit", BflUrl))
            /\ pc' = "generateSubmit"
            /\ UNCHANGED response
    /\ UNCHANGED <<env, bflResponse, imageUrl, attempts, counter, data, status, polled>>

\* faulty variant: off by one, one fetch too many
LoopCondition_Mut(a) == a <= maxAttempts

\* while (attempts < maxAttempts)
LoopCondition(a) == a < maxAttempts

\* if (attempts >= maxAttempts)
BudgetSpent(a) == a >= maxAttempts

TimeoutError ==
    Json(ErrorBody(<<"Image processing timed out after multiple attempts">>), 500)

UnexpectedStatus(s) == Json(ErrorBody(<<"Unexpected status: ", s>>), 500)

\* faulty variant: the message of the other poll loop (line 100) pasted here
PollTransportError_Mut == Json(ErrorBody(<<"Failed to fetch image">>), 500)

PollTransportError == Json(ErrorBody(<<"Failed to fetch polling status">>), 500)

MissingResult == Json(ErrorBody(<<"No image URL in result">>), 500)

\* data.result?.sample || data.sample
ExtractSample(d) ==
    IF d.hasResult /\ Truthy(d.resultSample) THEN d.resultSample ELSE d.sample

\* lines 234-260: what the handler returns once the loop is left
AfterLoop(a, d) ==
    IF BudgetSpent(a) THEN TimeoutError
    ELSE IF d.kind # "object"
    THEN GenerateCatch("Cannot read properties of undefined (reading 'status')")
    ELSE IF d.status # "Ready"
    THEN Json(ErrorBody(<<"Image processing failed with status: ", d.status>>), 500)
    ELSE IF ~Truthy(ExtractSample(d)) THEN MissingResult
    ELSE Json(ImageBody(ExtractSample(d)), 200)

\* faulty variant: the status fetch goes to the submission endpoint
LoopHead_Mut(a, d, url) ==
    IF LoopCondition(a)
    THEN /\ log' = Append(log, Fetch("status", BflUrl))
         /\ pc' = "generatePoll"
         /\ UNCHANGED response
    ELSE /\ Respond(AfterLoop(a, d))
         /\ UNCHANGED log

\* the head of the while loop: the next status fetch, or the code after it
LoopHead(a, d, url) ==
    IF LoopCondition(a)
    THEN /\ log' = Append(log, Fetch("status", url))
         /\ pc' = "generatePoll"
         /\ UNCHANGED response
    ELSE /\ Respond(AfterLoop(a, d))
         /\ UNCHANGED log

GenerateSubmitReturn(out) ==
    /\ pc = "generateSubmit"
    /\ bflResponse' = out
    /\ IF out.kind # "ok"
       THEN /\ Respond(CASE out.kind = "throw" -> GenerateCatch("fetch failed")
                         [] out.kind = "notok" -> UpstreamError
                         [] out.kind = "badjson" -> GenerateCatch("Unexpected token"))
            /\ UNCHANGED <<imageUrl, log>>
       ELSE /\ imageUrl' = out.polling_url
            /\ IF ~Truthy(out.polling_url)
               THEN /\ Respond(Json(ErrorBody(<<"No polling URL returned from BFL API">>), 500))
                    /\ UNCHANGED log
               ELSE LoopHead(0, NoData, out.polling_url)
    /\ UNCHANGED <<env, route, req, bflRequest, attempts, counter, data, status, polled>>

\* what the loop body does with a parsed payload (lines 217-231):
\* "break", "sleep" or "fail"
\* faulty variant: an unknown status is polled again like Pending
Classify_Mut(s) == IF s = "Ready" THEN "break" ELSE "sleep"

Classify(s) ==
    IF s = "Ready" THEN "break"
    ELSE IF s = "Pending" THEN "sleep"
    ELSE "fail"

GeneratePollReturn(out) ==
    /\ pc = "generatePoll"
    /\ polled' = Append(polled, IF out.kind # "ok" THEN out.kind
                                ELSE IF out.payload.kind = "null" THEN "null"
                                ELSE out.payload.status)
    /\ IF out.kind # "ok"
       THEN /\ Respond(CASE out.kind = "throw" -> GenerateCatch("fetch failed")
                         [] out.kind = "notok" -> PollTransportError
                         [] out.kind = "badjson" -> GenerateCatch("Unexpected token"))
            /\ UNCHANGED <<data, attempts, log>>
       ELSE /\ data' = out.payload
            /\ attempts' = attempts + 1
            /\ IF out.payload.kind = "null"
               THEN /\ Respond(GenerateCatch("Cannot read properties of null (reading 'status')"))
                    /\ UNCHANGED log
               ELSE CASE Classify(out.payload.status) = "break" ->
                           /\ Respond(AfterLoop(attempts + 1, out.payload))
                           /\ UNCHANGED log
                      [] Classify(out.payload.status) = "sleep" ->
                           /\ log' = Append(log, Sleep(delayMs))
                           /\ pc' = "generateSleep"
                           /\ UNCHANGED response
                      [] Classify(out.payload.status) = "fail" ->
                           /\ Respond(UnexpectedStatus(out.payload.status))
                           /\ UNCHANGED log
    /\ UNCHANGED <<env, route, req, bflRequest, bflResponse, imageUrl, counter, status>>

\* the timer fires: continue
GenerateWake ==
    /\ pc = "generateSleep"
    /\ LoopHead(attempts, data, imageUrl)
    /\ UNCHANGED <<env, route, req, bflRequest, bflResponse, imageUrl, attempts, counter,
                   data, status, polled>>

-----------------------------------------------------------------------------
(* POST /api/getImage *)

GetImageCatch(msg) ==
    Json([error |-> <<"Failed to process image request">>, details |-> msg], 500)

\* if (counter == 120) break
CounterBreak(n) == n = counterBreak

\* lines 115-121
GetImageAfterLoop(s, d) ==
    IF s = "Pending"
    THEN Json(ErrorBody(<<"Image processing is pending">>), 500)
    ELSE IF ~d.hasResult
    THEN GetImageCatch("Cannot read properties of undefined (reading 'sample')")
    ELSE Json(ImageBody(d.resultSample), 200)

\* while (status === 'Pending')
GetImageLoopHead(s, d, url) ==
    IF s = "Pending"
    THEN /\ log' = Append(log, Fetch("status", url))
         /\ pc' = "getImageFetch"
         /\ UNCHANGED response
    ELSE /\ Respond(GetImageAfterLoop(s, d))
         /\ UNCHANGED log

GetImageBegin(body) ==
    /\ pc = "idle"
    /\ route' = "getImage"
    /\ req' = body
    /\ IF body.kind = "bad"
       THEN /\ Respond(GetImageCatch("Unexpected token"))
            /\ UNCHANGED <<imageUrl, status, counter, log>>
       ELSE IF body.kind = "null"
       THEN /\ Respond(GetImageCatch("Cannot destructure property 'imageUrl'"))
            /\ UNCHANGED <<imageUrl, status, counter, log>>
       ELSE /\ imageUrl' = body.imageUrl
            /\ IF ~Truthy(body.imageUrl)
               THEN /\ Respond(Json(ErrorBody(<<"Image URL is required">>), 400))
                    /\ UNCHANGED <<status, counter, log>>
               ELSE /\ status' = "Pending"
                    /\ counter' = 1
                    /\ GetImageLoopHead("Pending", NoData, body.imageUrl)
    /\ UNCHANGED <<env, bflRequest, bflResponse, attempts, data, polled>>

\* line 97 returns; lines 99-107
GetImageFetchReturn(out) ==
    /\ pc = "getImageFetch"
    /\ polled' = Append(polled, IF out.kind # "ok" THEN out.kind
                                ELSE IF out.payload.kind = "null" THEN "null"
                                ELSE out.payload.status)
    /\ IF out.kind # "ok"
       THEN /\ Respond(CASE out.kind = "throw" -> GetImageCatch("fetch failed")
                         [] out.kind = "notok" ->
                              Json(ErrorBody(<<"Failed to fetch image">>), 500)
                         [] out.kind = "badjson" -> GetImageCatch("Unexpected token"))
            /\ UNCHANGED <<data, status, log>>
       ELSE /\ data' = out.payload
            /\ IF out.payload.kind = "null"
               THEN /\ Respond(GetImageCatch("Cannot read properties of null (reading 'status')"))
                    /\ UNCHANGED <<status, log>>
               ELSE /\ status' = out.payload.status
                    /\ log' = Append(log, Fetch("status", imageUrl))
                    /\ pc' = "getImageRefetch"
                    /\ UNCHANGED response
    /\ UNCHANGED <<env, route, req, bflRequest, bflResponse, imageUrl, attempts, counter>>

\* line 107 returns (its response is discarded); lines 108-113
GetImageRefetchReturn(thrown) ==
    /\ pc = "getImageRefetch"
    /\ IF thrown
       THEN /\ Respond(GetImageCatch("fetch failed"))
            /\ UNCHANGED <<counter, log>>
       ELSE /\ counter' = counter + 1
            /\ IF CounterBreak(counter + 1)
               THEN /\ Respond(GetImageAfterLoop(status, data))
                    /\ UNCHANGED log
               ELSE GetImageLoopHead(status, data, imageUrl)
    /\ UNCHANGED <<env, route, req, bflRequest, bflResponse, imageUrl, attempts,
                   data, status, polled>>

-----------------------------------------------------------------------------
(* POST /api/getImage, the earlier handler (src/unnamed/part_000) *)

\* what a fetch whose response is discarded can do: reject, or be answered;
\* the status the upstream reports in the answer is kept in polled only
RefetchOutcomes == {"throw", "Pending", "Ready"}

\* if (counter == 10) break
EarlyCounterBreak(n) == n = earlyCounterBreak

\* while (data.status === 'Pending') { await fetch(imageUrl); ...
EarlyLoopHead(d, url) ==
    IF d.status = "Pending"
    THEN /\ log' = Append(log, Fetch("status", url))
         /\ pc' = "earlyRefetch"
         /\ UNCHANGED response
    ELSE /\ Respond(GetImageAfterLoop(d.status, d))
         /\ UNCHANGED log

\* lines 86-94
EarlyGetImageBegin(body) ==
    /\ pc = "idle"
    /\ route' = "earlyGetImage"
    /\ req' = body
    /\ IF body.kind = "bad"
       THEN /\ Respond(GetImageCatch("Unexpected token"))
            /\ UNCHANGED <<imageUrl, log>>
       ELSE IF body.kind = "null"
       THEN /\ Respond(GetImageCatch("Cannot destructure property 'imageUrl'"))
            /\ UNCHANGED <<imageUrl, log>>
       ELSE /\ imageUrl' = body.imageUrl
            /\ IF ~Truthy(body.imageUrl)
               THEN /\ Respond(Json(ErrorBody(<<"Image URL is required">>), 400))
                    /\ UNCHANGED log
               ELSE /\ log' = Append(log, Fetch("status", body.imageUrl))
                    /\ pc' = "earlyFetch"
                    /\ UNCHANGED response
    /\ UNCHANGED <<env, bflRequest, bflResponse, attempts, counter, data, status,
                   polled>>

\* line 94 returns; lines 96-104: data is read here and nowhere else
EarlyFetchReturn(out) ==
    /\ pc = "earlyFetch"
    /\ polled' = Append(polled, IF out.kind # "ok" THEN out.kind
                                ELSE IF out.payload.kind = "null" THEN "null"
                                ELSE out.payload.status)
    /\ IF out.kind # "ok"
       THEN /\ Respond(CASE out.kind = "throw" -> GetImageCatch("fetch failed")
                         [] out.kind = "notok" ->
                              Json(ErrorBody(<<"Failed to fetch image">>), 500)
                         [] out.kind = "badjson" -> GetImageCatch("Unexpected token"))
            /\ UNCHANGED <<data, counter, log>>
       ELSE /\ data' = out.payload
            /\ IF out.payload.kind = "null"
               THEN /\ Respond(GetImageCatch("Cannot read properties of null (reading 'status')"))
                    /\ UNCHANGED <<counter, log>>
               ELSE /\ counter' = 1
                    /\ EarlyLoopHead(out.payload, imageUrl)
    /\ UNCHANGED <<env, route, req, bflRequest, bflResponse, imageUrl, attempts,
                   status>>

\* line 104 returns (its response is discarded); lines 105-109
EarlyRefetchReturn(out) ==
    /\ pc = "earlyRefetch"
    /\ polled' = Append(polled, out)
    /\ IF out = "throw"
       THEN /\ Respond(GetImageCatch("fetch failed"))
            /\ UNCHANGED <<counter, log>>
       ELSE /\ counter' = counter + 1
            /\ IF EarlyCounterBreak(counter + 1)
               THEN /\ Respond(GetImageAfterLoop(data.status, data))
                    /\ UNCHANGED log
               ELSE EarlyLoopHead(data, imageUrl)
    /\ UNCHANGED <<env, route, req, bflRequest, bflResponse, imageUrl, attempts,
                   data, status>>

-----------------------------------------------------------------------------
Next ==
    \/ \E form \in Forms : CreateBegin(form)
    \/ \E out \in SubmitOutcomes : CreateSubmitReturn(out)
    \/ \E form \in Forms : GenerateBegin(form)
    \/ \E out \in SubmitOutcomes : GenerateSubmitReturn(out)
    \/ \E out \in PollOutcomes : GeneratePollReturn(out)
    \/ GenerateWake
    \/ \E body \in JsonBodies : GetImageBegin(body)
    \/ \E out \in PollOutcomes : GetImageFetchReturn(out)
    \/ \E thrown \in BOOLEAN : GetImageRefetchReturn(thrown)
    \/ \E body \in JsonBodies : EarlyGetImageBegin(body)
    \/ \E out \in PollOutcomes : EarlyFetchReturn(out)
    \/ \E out \in RefetchOutcomes : EarlyRefetchReturn(out)

Spec == Init /\ [][Next]_vars

-----------------------------------------------------------------------------
(* Vocabulary of the properties *)

StatusFetches(l) == Cardinality({i \in DOMAIN l : l[i].op = "status"})
SubmitFetches(l) == Cardinality({i \in DOMAIN l : l[i].op = "submit"})
Sleeps(l) == Cardinality({i \in DOMAIN l : l[i].op = "sleep"})

Last(q) == q[Len(q)]

\* the first n status fetches answered Pending
PendingUpTo(n) == \A i \in 1..n : polled[i] = "Pending"

HasKey == env.BFL_API_KEY \notin {Absent, ""}

IsError(r, code, parts) ==
    /\ r.status = code
    /\ DOMAIN r.body = {"error"}
    /\ r.body.error = parts

IsImage(r, url) ==
    /\ r.status = 200
    /\ DOMAIN r.body = {"image"}
    /\ r.body.image = url

\* the payload carries a URL in the nested result object / at the top level
NestedSample(d) == d.hasResult /\ d.resultSample \notin {Absent, ""}
TopSample(d) == d.sample \notin {Absent, ""}

-----------------------------------------------------------------------------
\* C1: in /api/generate, for every k in 1..maxAttempts, when status fetches
\* 1..k-1 answer Pending and fetch k answers Ready with an extractable image
\* URL, the handler answers {image: <that URL>} and issues no status fetch
\* after fetch k.  (Stated for every k, the last permitted attempt included.)
C1_ReadyWithinBudgetSucceeds ==
    (/\ route = "generate"
     /\ Len(polled) \in 1..maxAttempts
     /\ PendingUpTo(Len(polled) - 1)
     /\ Last(polled) = "Ready"
     /\ (NestedSample(data) \/ TopSample(data)))
    => /\ pc = "done"
       /\ IsImage(response, IF NestedSample(data) THEN data.resultSample
                            ELSE data.sample)
       /\ StatusFetches(log) = Len(polled)

-----------------------------------------------------------------------------
\* C2: in /api/generate, when every status fetch answers Pending, the
\* handler issues exactly maxAttempts status fetches, sleeps delayMs
\* between every two consecutive ones, and answers the Timeout error (500).
C2_AllPendingTimesOut ==
    (/\ route = "generate"
     /\ Len(polled) >= 1
     /\ PendingUpTo(Len(polled)))
    => /\ StatusFetches(log) <= maxAttempts
       /\ \A i \in DOMAIN log :
            (log[i].op = "status" /\ \E j \in DOMAIN log : j > i /\ log[j].op = "status")
            => (log[i + 1].op = "sleep" /\ log[i + 1].ms = delayMs)
       /\ pc = "done" =>
            /\ Len(polled) = maxAttempts
            /\ StatusFetches(log) = maxAttempts
            /\ IsError(response, 500,
                       <<"Image processing timed out after multiple attempts">>)

C2_Witness ==
    /\ route = "generate"
    /\ pc = "done"
    /\ Len(polled) = maxAttempts
    /\ PendingUpTo(maxAttempts)
    /\ Sleeps(log) >= maxAttempts - 1
    /\ response.status = 500

-----------------------------------------------------------------------------
\* C3: in /api/generate, when the first status fetch answers a status that
\* is neither Pending nor Ready, the handler answers 'Unexpected status:
\* <status>' (500) after exactly one status fetch, without sleeping.
C3_UnexpectedStatusIsImmediate ==
    (/\ route = "generate"
     /\ Len(polled) >= 1
     /\ polled[1] \notin {"Pending", "Ready", "throw", "notok", "badjson", "null"})
    => /\ pc = "done"
       /\ IsError(response, 500, <<"Unexpected status: ", polled[1]>>)
       /\ StatusFetches(log) = 1
       /\ Sleeps(log) = 0
       /\ Len(polled) = 1

C3_Witness ==
    /\ route = "generate"
    /\ polled = <<"Error">>
    /\ pc = "done"
    /\ response.status = 500

-----------------------------------------------------------------------------
\* C4: /api/generate and /api/create, API key configured: a request whose
\* image field is absent or not a file is answered 400 and no outbound
\* fetch (submission or status poll) is ever issued for it.
C4_NoImageNoFetch ==
    (/\ route \in {"generate", "create"}
     /\ HasKey
     /\ req.ok
     /\ req.image.t # "file")
    => /\ pc = "done"
       /\ response.status = 400
       /\ "error" \in DOMAIN response.body
       /\ log = <<>>

C4_Witness ==
    /\ route = "generate"
    /\ HasKey
    /\ req.ok
    /\ req.image.t = "str"
    /\ response.status = 400
    /\ log = <<>>

-----------------------------------------------------------------------------
-----------------------------------------------------------------------------
\* C6: in /api/generate, once the loop has exited on a Ready payload, the
\* answer is {image: payload.result.sample} when the nested result carries
\* a sample, else {image: payload.sample} when the top level carries one,
\* else the MissingResult error (500, 'No image URL in result').
C6_ReadyPayloadExtraction ==
    (/\ route = "generate"
     /\ pc = "done"
     /\ Len(polled) >= 1
     /\ Last(polled) = "Ready")
    => IF NestedSample(data) THEN IsImage(response, data.resultSample)
       ELSE IF TopSample(data) THEN IsImage(response, data.sample)
       ELSE IsError(response, 500, <<"No image URL in result">>)

-----------------------------------------------------------------------------
\* C7: in /api/generate, when status fetch k (after k-1 Pending answers)
\* answers a non-success HTTP status, the handler answers 'Failed to fetch
\* polling status' (500) at once: exactly k status fetches are issued.
C7_TransportErrorIsTerminal ==
    (/\ route = "generate"
     /\ Len(polled) >= 1
     /\ Last(polled) = "notok")
    => /\ pc = "done"
       /\ IsError(response, 500, <<"Failed to fetch polling status">>)
       /\ PendingUpTo(Len(polled) - 1)
       /\ Len(polled) <= maxAttempts
       /\ StatusFetches(log) = Len(polled)

C7_Witness ==
    /\ route = "generate"
    /\ Len(polled) = maxAttempts
    /\ Last(polled) = "notok"
    /\ pc = "done"
    /\ StatusFetches(log) = maxAttempts

-----------------------------------------------------------------------------
\* C8: every failing step of /api/generate, /api/create and /api/getImage
\* (missing key, failed validation, non-success upstream answer, a fetch or
\* a JSON parse that throws, unexpected status, timeout, missing result)
\* ends in a JSON body with an 'error' field and HTTP 400 or 500; no
\* failure path answers with a success body.
SubmitFailed ==
    \/ bflResponse.kind \in {"throw", "notok", "badjson"}
    \/ route = "generate" /\ bflResponse.kind = "ok"
         /\ bflResponse.polling_url \in {Absent, ""}

PollFailed ==
    /\ Len(polled) >= 1
    /\ \/ Last(polled) \notin {"Pending", "Ready"}
       \/ Last(polled) = "Pending" /\ pc = "done"
       \/ Last(polled) = "Ready" /\ ~NestedSample(data)
            /\ (route = "generate" => ~TopSample(data))

FailingStep ==
    \/ route \in {"generate", "create"} /\ ~HasKey
    \/ route \in {"generate", "create"} /\ ~req.ok
    \/ route \in {"generate", "create"} /\ req.ok /\ req.image.t # "file"
    \/ route = "create" /\ req.ok /\ ~FieldTruthy(req.prompt)
    \/ route = "getImage" /\ (req.kind # "object" \/ req.imageUrl \in {Absent, ""})
    \/ SubmitFailed
    \/ PollFailed

C8_FailuresAreJsonErrors ==
    (pc = "done" /\ route \in {"generate", "create", "getImage"} /\ FailingStep)
    => /\ response.status \in {400, 500}
       /\ "error" \in DOMAIN response.body

-----------------------------------------------------------------------------
\* C9: /api/generate and /api/create without an API key answer 'API key
\* missing' (500) whatever the prompt and image fields are, and issue no
\* outbound fetch.
C9_MissingKeyTakesPrecedence ==
    (route \in {"generate", "create"} /\ ~HasKey)
    => /\ pc = "done"
       /\ IsError(response, 500, <<"API key missing">>)
       /\ log = <<>>

\* the key is missing and the prompt as well: the key error wins
C9_Witness ==
    /\ route = "create"
    /\ env.BFL_API_KEY = ""
    /\ req.ok
    /\ req.prompt.t = "undefined"
    /\ req.image.t = "undefined"
    /\ response.status = 500
    /\ response.body.error = <<"API key missing">>

-----------------------------------------------------------------------------
\* C10: in /api/getImage, whatever the upstream answers, the number of
\* fetches issued against the status URL during one request never exceeds
\* the endpoint's attempt bound N, N one of the documented 10, 30, 45.
DocumentedBounds == {10, 30, 45}

C10_GetImageFetchesBounded ==
    route = "getImage" => \E N \in DocumentedBounds : StatusFetches(log) <= N

-----------------------------------------------------------------------------
\* C11 (as stated): /api/create, with key, prompt and image present and an
\* upstream submission answered with HTTP success, answers a JSON body of
\* the shape {image: <url>}, as /api/generate does.
CreateSubmitted ==
    /\ route = "create"
    /\ pc = "done"
    /\ HasKey
    /\ req.ok
    /\ FieldTruthy(req.prompt)
    /\ req.image.t = "file"
    /\ bflResponse.kind = "ok"

C11_CreateAnswersImage ==
    CreateSubmitted => (response.status = 200 /\ DOMAIN response.body = {"image"})

\* C11 (amended): in that case /api/create answers 200 with {success: true,
\* result: <the upstream's submission body>, prompt: <the submitted
\* prompt>, timestamp}; it carries no image field and the handler issues
\* the one submission call and no status fetch.
C11_CreateAnswersSubmission ==
    CreateSubmitted
    => /\ response.status = 200
       /\ DOMAIN response.body = {"success", "result", "prompt", "timestamp"}
       /\ response.body.success = TRUE
       /\ response.body.result = [polling_url |-> bflResponse.polling_url]
       /\ response.body.prompt = req.prompt.v
       /\ SubmitFetches(log) = 1
       /\ StatusFetches(log) = 0

C11_Witness ==
    /\ CreateSubmitted
    /\ bflResponse.polling_url = "https://poll/1"
    /\ response.status = 200

-----------------------------------------------------------------------------
\* C12: in /api/generate the answer classifies the last status fetched:
\* Timeout only if it was Pending (and attempts = maxAttempts), Unexpected
\* status only if it was neither Pending nor Ready, success only if it was
\* Ready.  No request whose last fetched status is Ready is answered Timeout.
IsTimeout(r) ==
    IsError(r, 500, <<"Image processing timed out after multiple attempts">>)

IsUnexpected(r) ==
    /\ r.status = 500
    /\ DOMAIN r.body = {"error"}
    /\ r.body.error[1] = "Unexpected status: "

C12_OutcomeClassifiesLastStatus ==
    (route = "generate" /\ pc = "done" /\ Len(polled) >= 1)
    => /\ IsTimeout(response) => (Last(polled) = "Pending" /\ attempts = maxAttempts)
       /\ IsUnexpected(response) =>
            Last(polled) \notin {"Pending", "Ready", "throw", "notok", "badjson", "null"}
       /\ response.status = 200 => Last(polled) = "Ready"
       /\ Last(polled) = "Ready" => ~IsTimeout(response)

-----------------------------------------------------------------------------
\* C13: in /api/getImage (index.ts), once a status fetch has answered a
\* terminal status (Ready, or any status other than Pending), no further
\* fetch of the status URL is issued: no step that ends with a terminal
\* status read adds a fetch.
TerminalRead(q) ==
    /\ Len(q) >= 1
    /\ Last(q) \notin {"Pending", "throw", "notok", "badjson", "null"}

C13_NoFetchAfterTerminal ==
    [][(route' = "getImage" /\ TerminalRead(polled'))
       => StatusFetches(log') = StatusFetches(log)]_vars

-----------------------------------------------------------------------------
\* C14: /api/getImage (index.ts) answers {image: <url>} with success only
\* if the last status it read was Ready; a status that is neither Pending
\* nor Ready is answered with a failure (500), whatever the payload carries.
C14_GetImageSuccessOnlyOnReady ==
    (route = "getImage" /\ pc = "done")
    => /\ response.status = 200 => (Len(polled) >= 1 /\ Last(polled) = "Ready")
       /\ (TerminalRead(polled) /\ Last(polled) # "Ready") => response.status = 500

-----------------------------------------------------------------------------
\* C15: in /api/generate polling comes strictly after a successful
\* submission: one submission call per request that passes validation; a
\* non-success answer gives the UpstreamError (500, upstream body included)
\* and no status fetch; a success body without polling_url gives the 'no
\* polling URL' error and no status fetch; every status fetch targets the
\* polling_url returned by the request's own submission.
PassesValidation == HasKey /\ req.ok /\ req.image.t = "file"

C15_PollingFollowsSubmission ==
    route = "generate"
    => /\ SubmitFetches(log) = (IF PassesValidation THEN 1 ELSE 0)
       /\ bflResponse.kind = "notok" =>
            /\ pc = "done"
            /\ IsError(response, 500, <<"BFL API error: ", "upstream body">>)
            /\ StatusFetches(log) = 0
       /\ (bflResponse.kind = "ok" /\ bflResponse.polling_url \in {Absent, ""}) =>
            /\ pc = "done"
            /\ IsError(response, 500, <<"No polling URL returned from BFL API">>)
            /\ StatusFetches(log) = 0
       /\ \A i \in DOMAIN log :
            log[i].op = "status" =>
                /\ i > 1
                /\ log[1] = [op |-> "submit", url |-> BflUrl, ms |-> 0]
                /\ bflResponse.kind = "ok"
                /\ log[i].url = bflResponse.polling_url

C15_Witness ==
    /\ route = "generate"
    /\ bflResponse.kind = "ok"
    /\ bflResponse.polling_url = "https://poll/2"
    /\ StatusFetches(log) >= 2
    /\ log[Len(log)].url = "https://poll/2"

-----------------------------------------------------------------------------
\* C16: in /api/generate the width and height of the submitted body are
\* always positive: each is the parsed form field when that is a positive
\* integer, and 1024 when the field is absent, unparsable, zero or negative.
PositiveOrDefault(f) ==
    IF ~ParseInt(f).nan /\ ParseInt(f).n > 0 THEN ParseInt(f).n ELSE 1024

C16_DimensionsPositive ==
    (route = "generate" /\ SubmitFetches(log) >= 1)
    => /\ bflRequest.width > 0
       /\ bflRequest.height > 0
       /\ bflRequest.width = PositiveOrDefault(req.width)
       /\ bflRequest.height = PositiveOrDefault(req.height)

-----------------------------------------------------------------------------
\* C17: in the earlier /api/getImage (attempt bound 10), when the first
\* status fetch answers Pending and the upstream reports Ready (with
\* result.sample) on a later fetch within the bound, the handler answers
\* {image: <url>} and not 'Image processing is pending': the loop examines
\* the status of the most recent fetch.
ReadyLater ==
    /\ Len(polled) >= 2
    /\ Len(polled) <= earlyCounterBreak
    /\ polled[1] = "Pending"
    /\ \E i \in 2..Len(polled) : polled[i] = "Ready"
    /\ \A i \in 1..Len(polled) : polled[i] \in {"Pending", "Ready"}

C17_EarlyGetImageSeesReady ==
    (route = "earlyGetImage" /\ pc = "done" /\ ReadyLater)
    => /\ response.status = 200
       /\ DOMAIN response.body = {"image"}

====
